---- MODULE Spec2Model ----
(***************************************************************************)
(* SmortMoney backend: the receipt upload route (POST                      *)
(* /api/transactions/upload) behind its multer middleware, the category    *)
(* create and update routes, the transaction DELETE routes and the store   *)
(* they share, as a state machine.  One request slot per id in Req; an     *)
(* upload advances from one await of the handler to the next.              *)
(***************************************************************************)
EXTENDS Integers, Sequences, FiniteSets, TLC

\* ---------------------------------------------------------------- bounds
MaxBatch == 2          \* longest extracted array the model draws
MaxCategoryPosts == 1  \* category create requests of one behaviour
MaxCategoryPuts == 1   \* category update requests of one behaviour
MaxTransactionDeletes == 1  \* DELETE /api/transactions/... requests of one behaviour
MaxApiCalls == 2       \* requests to the other routes of one behaviour

\* The upload request slots; Solo is the slot of the one-upload specification.
Req == {"r1", "r2"}
Solo == {"r1"}

\* ------------------------------------------------- JSON values (untrusted)
\* A decoded JSON scalar: t is the typeof class, s the text of a string (or
\* "Infinity" for an overflowed number literal), n the value of a finite number
\* in minor units (cents).
JNull == [t |-> "null", s |-> "", n |-> 0]
JStr(x) == [t |-> "string", s |-> x, n |-> 0]
JNum(k) == [t |-> "number", s |-> "", n |-> k]
JInfinity == [t |-> "number", s |-> "Infinity", n |-> 0]
JUndefined == [t |-> "undefined", s |-> "", n |-> 0]

\* JavaScript truthiness of a decoded value (the ! operator negated).
Truthy(v) ==
    CASE v.t \in {"null", "undefined"} -> FALSE
      [] v.t = "string" -> v.s # ""
      [] v.t = "number" -> v.s = "Infinity" \/ v.n # 0

\* typeof v === 'number'
IsNumberType(v) == v.t = "number"

\* Template-literal text of a value.
ToText(v) == IF v.t = "null" THEN "null" ELSE v.s

\* An element of the extracted array: the JSON null, or an object of four fields.
Cand(m, a, d, c) == [isNull |-> FALSE, merchant |-> m, amount |-> a, date |-> d, category |-> c]
NullCand == [isNull |-> TRUE, merchant |-> JNull, amount |-> JNull, date |-> JNull, category |-> JNull]

\* ----------------------------------------------------------------- dates
\* The year, month and day fields the date parser lexes from a string of the
\* form YYYY-MM-DD; <<>> for a string of any other form.
IsoFields(s) ==
    CASE s = "2024-03-15" -> <<2024, 3, 15>>
      [] s = "2024-03-14" -> <<2024, 3, 14>>
      [] s = "2024-01-01" -> <<2024, 1, 1>>
      [] s = "2024-02-30" -> <<2024, 2, 30>>
      [] s = "2023-12-32" -> <<2023, 12, 32>>
      [] OTHER -> <<>>

InvalidDate == [valid |-> FALSE, y |-> 0, m |-> 0, d |-> 0]
DateOf(yy, mm, dd) == [valid |-> TRUE, y |-> yy, m |-> mm, d |-> dd]

IsLeap(y) == (y % 4 = 0 /\ y % 100 # 0) \/ y % 400 = 0
DaysInMonth(y, m) ==
    IF m = 2 THEN (IF IsLeap(y) THEN 29 ELSE 28)
    ELSE IF m \in {4, 6, 9, 11} THEN 30 ELSE 31

\* The engine's day composition: a day past the end of its month carries into
\* the next month (and December into January of the next year).
MakeDay(y, m, d) ==
    IF d <= DaysInMonth(y, m) THEN DateOf(y, m, d)
    ELSE IF m = 12 THEN DateOf(y + 1, 1, d - DaysInMonth(y, m))
    ELSE DateOf(y, m + 1, d - DaysInMonth(y, m))

\* new Date(v): null converts to time 0 (the epoch day); for a string the parser
\* accepts month 1..12 and day 1..31 and composes the day; anything else is the
\* Invalid Date.
NewDate(v) ==
    LET f == IsoFields(v.s) IN
    IF v.t = "null" THEN DateOf(1970, 1, 1)
    ELSE IF v.t # "string" \/ Len(f) # 3 THEN InvalidDate
    ELSE IF f[2] \in 1..12 /\ f[3] \in 1..31 THEN MakeDay(f[1], f[2], f[3])
    ELSE InvalidDate

\* A date of the calendar: the day exists in its month.
IsCalendarDate(dt) ==
    dt.valid /\ dt.m \in 1..12 /\ dt.d >= 1 /\ dt.d <= DaysInMonth(dt.y, dt.m)

\* ------------------------------------------------------- extraction output
\* Elements the decoded extraction array is drawn from: one per case of the
\* handler's validation, category resolution and persistence.
CafeLuna == Cand(JStr("Cafe Luna"), JNum(-1250), JStr("2024-03-15"), JStr("Dining"))
Payroll == Cand(JStr("Payroll"), JNum(200000), JStr("2024-03-14"), JStr("Income"))
NoLabel == Cand(JStr("Market"), JNum(-500), JStr("2024-03-15"), JNull)
NullMerchant == Cand(JNull, JNum(500), JStr("2024-01-01"), JStr("Other"))
EmptyMerchant == Cand(JStr(""), JNum(-500), JStr("2024-03-15"), JNull)
NullAmount == Cand(JStr("Market"), JNull, JStr("2024-03-15"), JStr("Dining"))
ZeroAmount == Cand(JStr("Refund"), JNum(0), JStr("2024-03-15"), JNull)
TextAmount == Cand(JStr("Kiosk"), JStr("12.50"), JStr("2024-03-15"), JStr("Dining"))
HugeAmount == Cand(JStr("Bank"), JInfinity, JStr("2024-03-15"), JNull)
NullDate == Cand(JStr("Market"), JNum(-500), JNull, JNull)
TextDate == Cand(JStr("Market"), JNum(-500), JStr("yesterday"), JNull)
Feb30 == Cand(JStr("Market"), JNum(-500), JStr("2024-02-30"), JNull)
Dec32 == Cand(JStr("Market"), JNum(-500), JStr("2023-12-32"), JStr("Dining"))

Candidates ==
    { CafeLuna, Payroll, NoLabel, NullCand, NullMerchant, EmptyMerchant, NullAmount,
      ZeroAmount, TextAmount, HugeAmount, NullDate, TextDate, Feb30, Dec32 }

\* The arrays analyzeTransactionImage can return (the empty one included).
Arrays == UNION { [1..n -> Candidates] : n \in 0..MaxBatch }

\* ------------------------------------------------------- the uploaded file
\* limits.fileSize of the multer configuration, in bytes.
FileSizeLimit == 10 * 1024 * 1024

\* A multipart file part: its declared content type as <<type, subtype>> and
\* its size in bytes; NoFile is a request without the screenshot part.
NoFile == [present |-> FALSE, mimetype |-> <<"", "">>, size |-> 0]
FilePart(mimetype, size) == [present |-> TRUE, mimetype |-> mimetype, size |-> size]

MimeTypes == { <<"image", "png">>, <<"application", "pdf">> }
FileSizes == { FileSizeLimit, FileSizeLimit + 1 }
Uploads == {NoFile} \cup { FilePart(m, z) : m \in MimeTypes, z \in FileSizes }

\* fileFilter: file.mimetype.startsWith('image/').
FileFilterAccepts(f) == f.mimetype[1] = "image"

\* The candidates and arrays of the specification with two uploads.
FewCandidates == { CafeLuna, ZeroAmount }
FewArrays == UNION { [1..n -> FewCandidates] : n \in 0..MaxBatch }

\* The arrays whose candidates all carry one label, of the specification with
\* the category and DELETE routes.
SameLabelArrays == UNION { [1..n -> {CafeLuna}] : n \in 0..MaxBatch }

\* ------------------------------------------------------ category requests
PostNames == { JNull, JStr("Dining"), JStr("Income") }
PostIcons == { JNull, JStr("restaurant") }

\* req.body.name and req.body.iconName of a category update (either may be left
\* out).
PutNames == { JUndefined, JStr("Dining"), JStr("Income") }
PutIcons == { JUndefined, JNull }

\* ----------------------------------------- DELETE /api/transactions/<segment>
\* The path segment after /api/transactions/: the word 'clear' or the id of a
\* Transaction.
ClearSegment == [word |-> "clear", id |-> 0]
IdSegment(k) == [word |-> "", id |-> k]

\* ------------------------------------------------------------------ state
VARIABLES
    categories,        \* Category table: set of [id, name, iconName]
    transactions,      \* Transaction table: set of [id, merchant, amount, date, categoryId]
    nextCategoryId,    \* next fresh Category id
    nextTransactionId, \* next fresh Transaction id
    categoryPosts,     \* category create requests answered so far
    categoryStatus,    \* status of the last category create response (0: none yet)
    pc,                \* per upload request: where its handler stands
    extractedFields,   \* per request: the array returned by the analysis
    idx,               \* per request: the loop's position in extractedFields
    category,          \* per request: id found by the lookup (NoId: null)
    savedTransactions, \* per request: Transactions persisted so far
    errors,            \* per request: failure descriptors so far
    response,          \* per request: the HTTP response sent (status 0: none yet)
    file,              \* per request: the multipart file part as received
    categoryPuts,      \* category update requests answered so far
    transactionDeletes,\* DELETE /api/transactions/... requests answered so far
    deleteResponse,    \* path and response of the last such DELETE (status 0: none yet)
    budgets,           \* Budget table: set of [id, categoryId, month, year, amount]
    nextBudgetId,      \* next fresh Budget id
    apiCalls,          \* requests to the other routes answered so far
    apiResponse,       \* request and response of the last of them (status 0: none yet)
    utcOffset,         \* hours the local time of the server process is ahead of UTC
    rawText            \* per request: the text the inference call answered with

vars ==
    << categories, transactions, nextCategoryId, nextTransactionId, categoryPosts,
       categoryStatus, pc, extractedFields, idx, category, savedTransactions, errors,
       response, file, categoryPuts, transactionDeletes, deleteResponse, budgets,
       nextBudgetId, apiCalls, apiResponse, utcOffset, rawText >>

storeVars == << categories, transactions, nextCategoryId, nextTransactionId >>
postVars == << categoryPosts, categoryStatus >>
adminVars == << categoryPuts, transactionDeletes, deleteResponse >>
ledgerVars == << budgets, nextBudgetId, apiCalls, apiResponse, utcOffset, rawText >>

\* categoryId of an uncategorized Transaction (String? in the schema: null).
NoId == 0

\* ------------------------------------------------------------------ store
\* prisma.category.findFirst({where: {name: {equals: name}}, select: {id}}):
\* the id of the Category of exactly that name, NoId (null) when there is none.
FindCategoryByName(name) ==
    IF \E c \in categories : c.name = name
    THEN (CHOOSE c \in categories : c.name = name).id
    ELSE NoId

\* Faulty variant: a store that does not enforce the foreign key of categoryId.
CreateAccepts_NoForeignKey(data) ==
    /\ data.merchant.t = "string"
    /\ data.amount.t = "number" /\ data.amount.s # "Infinity"
    /\ data.date.valid

\* What prisma.transaction.create accepts: the column types of Transaction
\* (merchant String, amount Float, date DateTime) and the foreign key of
\* categoryId; anything else is rejected with an exception.
CreateAccepts(data) ==
    /\ data.merchant.t = "string"
    /\ data.amount.t = "number" /\ data.amount.s # "Infinity"
    /\ data.date.valid
    /\ (data.categoryId = NoId \/ \E c \in categories : c.id = data.categoryId)

\* ------------------------------------------------------- upload: responses
NoResponse ==
    [status |-> 0, message |-> <<>>, transactions |-> <<>>, hasErrors |-> FALSE, errors |-> <<>>]

\* res.status(code).json({message}) / .send({message})
MessageResponse(code, msg) ==
    [status |-> code, message |-> msg, transactions |-> <<>>, hasErrors |-> FALSE, errors |-> <<>>]

\* Faulty variant: the summary counts the rows saved where it should count the
\* candidates found.
CreatedResponse_SavedAsFound(found, saved, errs) ==
    [status |-> 201,
     message |-> <<"Processed ", Len(saved), " potential transactions, successfully saved ", Len(saved)>>,
     transactions |-> saved,
     hasErrors |-> Len(errs) > 0,
     errors |-> IF Len(errs) > 0 THEN errs ELSE <<>>]

\* Faulty variant: the errors list sent even when it is empty.
CreatedResponse_AlwaysErrors(found, saved, errs) ==
    [status |-> 201,
     message |-> <<"Processed ", found, " potential transactions, successfully saved ", Len(saved)>>,
     transactions |-> saved,
     hasErrors |-> TRUE,
     errors |-> errs]

\* The 201 body: message, transactions, and errors only when there are any
\* (errors.length > 0 ? errors : undefined).
CreatedResponse(found, saved, errs) ==
    [status |-> 201,
     message |-> <<"Processed ", found, " potential transactions, successfully saved ", Len(saved)>>,
     transactions |-> saved,
     hasErrors |-> Len(errs) > 0,
     errors |-> IF Len(errs) > 0 THEN errs ELSE <<>>]

\* The handler's outer catch: 400 for a multer error or a message that starts
\* with 'Invalid file', otherwise 500 with a fixed message.  err is
\* [multer, message], message a sequence of text parts.
OuterCatch(err) ==
    IF err.multer THEN MessageResponse(400, <<"File upload error: ">> \o err.message)
    ELSE IF err.message[1] = "Invalid file" THEN MessageResponse(400, err.message)
    ELSE MessageResponse(500, <<"Server error processing receipt">>)

ThrownError(msg) == [multer |-> FALSE, message |-> msg]

\* The application registers no error-handling middleware: an error passed to
\* next(err) is answered by the framework's default handler, status 500 for an
\* error without a status property.
DefaultErrorResponse == MessageResponse(500, <<"Internal Server Error">>)

\* ------------------------------------------------ upload: failure descriptors
\* errors.push({message, data}) of the two validation branches.
DataError(msg, cand) == [message |-> <<msg>>, hasData |-> TRUE, data |-> cand]

\* errors.push({message}) of the per-item catch: no data property.
CatchError(cand, cause) ==
    [message |-> <<"Failed to save transaction ", ToText(cand.merchant), ": ", cause>>,
     hasData |-> FALSE, data |-> NullCand]

\* Faulty variant: the merchant test left out.
MissingRequired_NoMerchantTest(cand) ==
    cand.isNull \/ ~Truthy(cand.amount) \/ ~Truthy(cand.date)

\* The required-fields test of the loop: the element and its merchant, amount
\* and date must all be truthy.
MissingRequired(cand) ==
    cand.isNull \/ ~Truthy(cand.merchant) \/ ~Truthy(cand.amount) \/ ~Truthy(cand.date)

\* ------------------------------------------------------------ upload: steps
Current(r) == extractedFields[r][idx[r]]

\* Send the response and end the request.
Finish(r, resp) ==
    /\ response' = [response EXCEPT ![r] = resp]
    /\ pc' = [pc EXCEPT ![r] = "done"]

\* Faulty variant: the failure abandons the rest of the array (break for continue).
Skip_Break(r, e) ==
    /\ errors' = [errors EXCEPT ![r] = Append(@, e)]
    /\ idx' = [idx EXCEPT ![r] = Len(extractedFields[r]) + 1]
    /\ pc' = [pc EXCEPT ![r] = "loop"]

\* Append a failure descriptor and move to the next element.
Skip(r, e) ==
    /\ errors' = [errors EXCEPT ![r] = Append(@, e)]
    /\ idx' = [idx EXCEPT ![r] = @ + 1]
    /\ pc' = [pc EXCEPT ![r] = "loop"]

\* Faulty variant: the amount type test without its continue, so a candidate
\* it records goes on to the create.
CheckAmount_NoContinue(r) ==
    IF ~IsNumberType(Current(r).amount)
    THEN /\ errors' = [errors EXCEPT ![r] =
                Append(@, DataError("Transaction amount must be a number value", Current(r)))]
         /\ pc' = [pc EXCEPT ![r] = "create"]
         /\ UNCHANGED idx
    ELSE /\ pc' = [pc EXCEPT ![r] = "create"]
         /\ UNCHANGED << errors, idx >>

\* The code between the category lookup and the create: the amount type test.
CheckAmount(r) ==
    IF ~IsNumberType(Current(r).amount)
    THEN Skip(r, DataError("Transaction amount must be a number value", Current(r)))
    ELSE /\ pc' = [pc EXCEPT ![r] = "create"]
         /\ UNCHANGED << errors, idx >>

\* Faulty variant: the missing-file answer without its return, so the handler
\* goes on to the analysis after it has answered.
Start_NoReturn(r) ==
    /\ pc[r] = "idle"
    /\ \E f \in Uploads :
         /\ file' = [file EXCEPT ![r] = f]
         /\ IF ~f.present
            THEN /\ response' = [response EXCEPT ![r] =
                        MessageResponse(400, <<"Please upload a receipt">>)]
                 /\ pc' = [pc EXCEPT ![r] = "analyze"]
            ELSE \/ /\ ~FileFilterAccepts(f) \/ f.size >= FileSizeLimit
                    /\ Finish(r, DefaultErrorResponse)
                 \/ /\ FileFilterAccepts(f) /\ f.size <= FileSizeLimit
                    /\ pc' = [pc EXCEPT ![r] = "analyze"]
                    /\ UNCHANGED response
    /\ UNCHANGED << storeVars, postVars, adminVars, ledgerVars, extractedFields, idx, category,
                    savedTransactions, errors >>

\* The request arrives and passes upload.single('screenshot').  A part the
\* fileFilter refuses, or one over limits.fileSize, is handed to next(err): the
\* route handler does not run and the default error handler answers.  Whether a
\* part of exactly limits.fileSize bytes counts as over the limit depends on the
\* parser version, so both outcomes are possible.  Without a file the handler
\* answers 400 at once.
Start(r) ==
    /\ pc[r] = "idle"
    /\ \E f \in Uploads :
         /\ file' = [file EXCEPT ![r] = f]
         /\ IF ~f.present
            THEN Finish(r, MessageResponse(400, <<"Please upload a receipt">>))
            ELSE \/ /\ ~FileFilterAccepts(f) \/ f.size >= FileSizeLimit
                    /\ Finish(r, DefaultErrorResponse)
                 \/ /\ FileFilterAccepts(f) /\ f.size <= FileSizeLimit
                    /\ pc' = [pc EXCEPT ![r] = "analyze"]
                    /\ UNCHANGED response
    /\ UNCHANGED << storeVars, postVars, adminVars, ledgerVars, extractedFields, idx, category,
                    savedTransactions, errors >>

\* The causes analyzeTransactionImage fails with: the inference call rejects,
\* the cleaned text is not JSON, or it is JSON but not an array (the last two
\* rethrown by the parse catch).
AnalysisFailures ==
    { <<"inference call failed">>,
      <<"Failed to parse Gemini response: ", "Unexpected token">>,
      <<"Failed to parse Gemini response: ",
        "Gemini response was not in the expected array format.">> }

\* await analyzeTransactionImage(...) with the arrays of S as its possible
\* results: it throws, or returns an array; an empty array is thrown on by the
\* handler.
AnalyzeFrom(r, S) ==
    /\ pc[r] = "analyze"
    /\ \/ \E cause \in AnalysisFailures :
            /\ Finish(r, OuterCatch(ThrownError(
                   <<"Failed to analyze transaction image with Gemini: ">> \o cause)))
            /\ UNCHANGED << extractedFields, idx >>
       \/ \E arr \in S :
            IF Len(arr) = 0
            THEN /\ Finish(r, OuterCatch(ThrownError(
                        <<"Could not extract any transaction data from the uploaded receipt">>)))
                 /\ UNCHANGED << extractedFields, idx >>
            ELSE /\ extractedFields' = [extractedFields EXCEPT ![r] = arr]
                 /\ idx' = [idx EXCEPT ![r] = 1]
                 /\ pc' = [pc EXCEPT ![r] = "loop"]
                 /\ UNCHANGED response
    /\ UNCHANGED << storeVars, postVars, adminVars, ledgerVars, file, category, savedTransactions, errors >>

\* Faulty variant: the empty-array test left out, an empty batch answered 201.
Analyze_EmptyAccepted(r) ==
    /\ pc[r] = "analyze"
    /\ \/ \E cause \in AnalysisFailures :
            /\ Finish(r, OuterCatch(ThrownError(
                   <<"Failed to analyze transaction image with Gemini: ">> \o cause)))
            /\ UNCHANGED << extractedFields, idx >>
       \/ \E arr \in Arrays :
            IF Len(arr) = 0
            THEN /\ Finish(r, CreatedResponse(0, <<>>, <<>>))
                 /\ UNCHANGED << extractedFields, idx >>
            ELSE /\ extractedFields' = [extractedFields EXCEPT ![r] = arr]
                 /\ idx' = [idx EXCEPT ![r] = 1]
                 /\ pc' = [pc EXCEPT ![r] = "loop"]
                 /\ UNCHANGED response
    /\ UNCHANGED << storeVars, postVars, adminVars, ledgerVars, file, category, savedTransactions, errors >>

\* ------------------------------------------------ the text of the response
\* A text is a sequence of tokens: the fence of three backticks, a language
\* tag, white space, and the pieces of JSON text.
Fence == "fence"
Ws == "ws"

\* text.replace(/^```json\s*|\s*```$/g, ''): at the start of the text the fence
\* with the tag json and the white space after it, and at the end of the text
\* the fence and the white space before it, are removed.
RECURSIVE DropLeadingWs(_)
DropLeadingWs(text) ==
    IF Len(text) > 0 /\ Head(text) = Ws THEN DropLeadingWs(Tail(text)) ELSE text

RECURSIVE DropTrailingWs(_)
DropTrailingWs(text) ==
    IF Len(text) > 0 /\ text[Len(text)] = Ws
    THEN DropTrailingWs(SubSeq(text, 1, Len(text) - 1)) ELSE text

StripFences(text) ==
    LET rest == IF Len(text) >= 2 /\ text[1] = Fence /\ text[2] = "json"
                THEN DropLeadingWs(SubSeq(text, 3, Len(text)))
                ELSE text
    IN IF Len(rest) > 0 /\ rest[Len(rest)] = Fence
       THEN DropTrailingWs(SubSeq(rest, 1, Len(rest) - 1))
       ELSE rest

\* String.prototype.trim.
Trim(text) == DropTrailingWs(DropLeadingWs(text))

\* The value a JSON element token decodes to.
ElementOf(token) == IF token = "obj" THEN CafeLuna ELSE NullCand

ParseFailure(cause) == [ok |-> FALSE, value |-> <<>>, cause |-> cause]

\* JSON.parse and the Array.isArray test: white space between tokens is
\* skipped; an array of elements separated by commas decodes to their sequence,
\* a lone value to something that is no array, and anything else is a syntax
\* error.
JsonParseArray(text) ==
    LET t == SelectSeq(text, LAMBDA token : token # Ws)
        inner == SubSeq(t, 2, Len(t) - 1)
        IsElement(token) == token \in {"obj", "null"}
    IN IF /\ Len(t) >= 2 /\ t[1] = "[" /\ t[Len(t)] = "]"
          /\ (Len(inner) = 0 \/ Len(inner) % 2 = 1)
          /\ \A i \in 1..Len(inner) :
                IF i % 2 = 1 THEN IsElement(inner[i]) ELSE inner[i] = ","
       THEN [ok |-> TRUE,
             value |-> [i \in 1..((Len(inner) + 1) \div 2) |-> ElementOf(inner[2 * i - 1])],
             cause |-> <<>>]
       ELSE IF Len(t) = 1 /\ IsElement(t[1])
       THEN ParseFailure(<<"Failed to parse Gemini response: ",
                           "Gemini response was not in the expected array format.">>)
       ELSE ParseFailure(<<"Failed to parse Gemini response: ", "Unexpected token">>)

\* The parser of the response text: strip, trim, decode.
ParseResponse(text) == JsonParseArray(Trim(StripFences(text)))

\* The texts the inference call answers with, by what comes before the JSON
\* text, the JSON text and what comes after it.
Openings == { <<>>, <<Fence, "json", Ws>>, <<Fence, Ws>>, <<Fence, "json">>, <<Ws>> }
Bodies == { <<"[", "obj", "]">>, <<"[", Ws, "obj", ",", "null", Ws, "]">>, <<"[", "]">>,
            <<"obj">>, <<"[", "obj">> }
Closings == { <<>>, <<Ws, Fence>>, <<Fence>>, <<Ws, Fence, Ws>> }

ResponseText(opening, body, closing) == [opening |-> opening, body |-> body, closing |-> closing]
NoText == ResponseText(<<>>, <<>>, <<>>)
ResponseTexts == { ResponseText(o, b, c) : o \in Openings, b \in Bodies, c \in Closings }

\* response.text() of such a text.
Raw(text) == text.opening \o text.body \o text.closing

\* await analyzeTransactionImage(...) by the text of the response: the call
\* fails, or answers a text that the parser decodes to an array or throws on;
\* an empty array is thrown on by the handler.
AnalyzeText(r) ==
    /\ pc[r] = "analyze"
    /\ \/ /\ Finish(r, OuterCatch(ThrownError(
                   <<"Failed to analyze transaction image with Gemini: ",
                     "inference call failed">>)))
          /\ UNCHANGED << extractedFields, idx, rawText >>
       \/ \E text \in ResponseTexts :
            /\ rawText' = [rawText EXCEPT ![r] = text]
            /\ LET parsed == ParseResponse(Raw(text)) IN
                 IF ~parsed.ok
                 THEN /\ Finish(r, OuterCatch(ThrownError(
                             <<"Failed to analyze transaction image with Gemini: ">>
                                \o parsed.cause)))
                      /\ UNCHANGED << extractedFields, idx >>
                 ELSE IF Len(parsed.value) = 0
                 THEN /\ Finish(r, OuterCatch(ThrownError(
                             <<"Could not extract any transaction data from the uploaded receipt">>)))
                      /\ UNCHANGED << extractedFields, idx >>
                 ELSE /\ extractedFields' = [extractedFields EXCEPT ![r] = parsed.value]
                      /\ idx' = [idx EXCEPT ![r] = 1]
                      /\ pc' = [pc EXCEPT ![r] = "loop"]
                      /\ UNCHANGED response
    /\ UNCHANGED << storeVars, postVars, adminVars, budgets, nextBudgetId, apiCalls, apiResponse,
                    utcOffset, file, category, savedTransactions, errors >>

\* The analysis step of an upload over the full set of arrays.
Analyze(r) == AnalyzeFrom(r, Arrays)

\* Top of one loop iteration, up to its first await.
Validate(r) ==
    /\ pc[r] = "loop"
    /\ idx[r] <= Len(extractedFields[r])
    /\ IF MissingRequired(Current(r))
       THEN /\ Skip(r, DataError("Transaction missing required fields (merchant/amount/date)",
                                 Current(r)))
            /\ UNCHANGED category
       ELSE IF Truthy(Current(r).category)
       THEN /\ pc' = [pc EXCEPT ![r] = "lookup"]
            /\ category' = [category EXCEPT ![r] = NoId]
            /\ UNCHANGED << errors, idx >>
       ELSE /\ category' = [category EXCEPT ![r] = NoId]
            /\ CheckAmount(r)
    /\ UNCHANGED << storeVars, postVars, adminVars, ledgerVars, file, extractedFields, savedTransactions, response >>

\* Faulty variant: the lookup as an upsert, which inserts the Category of a
\* label that has none.
Lookup_Upsert(r) ==
    /\ pc[r] = "lookup"
    /\ \/ /\ FindCategoryByName(Current(r).category.s) # NoId
          /\ category' = [category EXCEPT ![r] = FindCategoryByName(Current(r).category.s)]
          /\ CheckAmount(r)
          /\ UNCHANGED << categories, nextCategoryId >>
       \/ /\ FindCategoryByName(Current(r).category.s) = NoId
          /\ categories' = categories \cup
                { [id |-> nextCategoryId, name |-> Current(r).category.s, iconName |-> JNull] }
          /\ nextCategoryId' = nextCategoryId + 1
          /\ category' = [category EXCEPT ![r] = nextCategoryId]
          /\ CheckAmount(r)
       \/ /\ Skip(r, CatchError(Current(r), "store unavailable"))
          /\ UNCHANGED << category, categories, nextCategoryId >>
    /\ UNCHANGED << transactions, nextTransactionId, postVars, adminVars, ledgerVars, file,
                    extractedFields, savedTransactions, response >>

\* Faulty variant: the lookup as an upsert whose update branch clears the icon
\* of the Category it finds.
Lookup_ClearsIcon(r) ==
    /\ pc[r] = "lookup"
    /\ \/ /\ category' = [category EXCEPT ![r] = FindCategoryByName(Current(r).category.s)]
          /\ categories' = { IF c.name = Current(r).category.s
                             THEN [c EXCEPT !.iconName = JNull] ELSE c : c \in categories }
          /\ CheckAmount(r)
       \/ /\ Skip(r, CatchError(Current(r), "store unavailable"))
          /\ UNCHANGED << category, categories >>
    /\ UNCHANGED << transactions, nextCategoryId, nextTransactionId, postVars, adminVars,
                    ledgerVars, file, extractedFields, savedTransactions, response >>

\* await prisma.category.findFirst(...) resolves or rejects.
Lookup(r) ==
    /\ pc[r] = "lookup"
    /\ \/ /\ category' = [category EXCEPT ![r] = FindCategoryByName(Current(r).category.s)]
          /\ CheckAmount(r)
       \/ /\ Skip(r, CatchError(Current(r), "store unavailable"))
          /\ UNCHANGED category
    /\ UNCHANGED << storeVars, postVars, adminVars, ledgerVars, file, extractedFields, savedTransactions, response >>

\* The data object handed to prisma.transaction.create.
CreateData(r) ==
    [merchant |-> Current(r).merchant,
     amount |-> Current(r).amount,
     date |-> NewDate(Current(r).date),
     categoryId |-> category[r]]

\* Faulty variant: a rejected create undoes the rows the request saved before it.
Create_RollbackOnFailure(r) ==
    /\ pc[r] = "create"
    /\ \/ /\ CreateAccepts(CreateData(r))
          /\ LET row == [id |-> nextTransactionId] @@ CreateData(r) IN
               /\ transactions' = transactions \cup {row}
               /\ savedTransactions' = [savedTransactions EXCEPT ![r] = Append(@, row)]
          /\ nextTransactionId' = nextTransactionId + 1
          /\ idx' = [idx EXCEPT ![r] = @ + 1]
          /\ pc' = [pc EXCEPT ![r] = "loop"]
          /\ UNCHANGED errors
       \/ /\ ~CreateAccepts(CreateData(r))
          /\ Skip(r, CatchError(Current(r), "Invalid value provided"))
          /\ UNCHANGED << transactions, nextTransactionId, savedTransactions >>
       \/ /\ Skip(r, CatchError(Current(r), "store unavailable"))
          /\ transactions' =
                { t \in transactions :
                    \A i \in 1..Len(savedTransactions[r]) : savedTransactions[r][i] # t }
          /\ savedTransactions' = [savedTransactions EXCEPT ![r] = <<>>]
          /\ UNCHANGED nextTransactionId
    /\ UNCHANGED << categories, nextCategoryId, postVars, adminVars, ledgerVars, file, extractedFields, category, response >>

\* Faulty variant: the new row put at the front of savedTransactions (unshift
\* for push).
Create_Unshift(r) ==
    /\ pc[r] = "create"
    /\ \/ /\ CreateAccepts(CreateData(r))
          /\ LET row == [id |-> nextTransactionId] @@ CreateData(r) IN
               /\ transactions' = transactions \cup {row}
               /\ savedTransactions' = [savedTransactions EXCEPT ![r] = <<row>> \o @]
          /\ nextTransactionId' = nextTransactionId + 1
          /\ idx' = [idx EXCEPT ![r] = @ + 1]
          /\ pc' = [pc EXCEPT ![r] = "loop"]
          /\ UNCHANGED errors
       \/ /\ ~CreateAccepts(CreateData(r))
          /\ Skip(r, CatchError(Current(r), "Invalid value provided"))
          /\ UNCHANGED << transactions, nextTransactionId, savedTransactions >>
       \/ /\ Skip(r, CatchError(Current(r), "store unavailable"))
          /\ UNCHANGED << transactions, nextTransactionId, savedTransactions >>
    /\ UNCHANGED << categories, nextCategoryId, postVars, adminVars, ledgerVars, file, extractedFields, category, response >>

\* await prisma.transaction.create(...) resolves (the row is inserted and pushed
\* to savedTransactions) or rejects (the per-item catch records it).
Create(r) ==
    /\ pc[r] = "create"
    /\ \/ /\ CreateAccepts(CreateData(r))
          /\ LET row == [id |-> nextTransactionId] @@ CreateData(r) IN
               /\ transactions' = transactions \cup {row}
               /\ savedTransactions' = [savedTransactions EXCEPT ![r] = Append(@, row)]
          /\ nextTransactionId' = nextTransactionId + 1
          /\ idx' = [idx EXCEPT ![r] = @ + 1]
          /\ pc' = [pc EXCEPT ![r] = "loop"]
          /\ UNCHANGED errors
       \/ /\ ~CreateAccepts(CreateData(r))
          /\ Skip(r, CatchError(Current(r), "Invalid value provided"))
          /\ UNCHANGED << transactions, nextTransactionId, savedTransactions >>
       \/ /\ Skip(r, CatchError(Current(r), "store unavailable"))
          /\ UNCHANGED << transactions, nextTransactionId, savedTransactions >>
    /\ UNCHANGED << categories, nextCategoryId, postVars, adminVars, ledgerVars, file, extractedFields, category, response >>

\* Faulty variant: the saved-count test left out, every batch answered 201.
Respond_AlwaysCreated(r) ==
    /\ pc[r] = "loop"
    /\ idx[r] > Len(extractedFields[r])
    /\ Finish(r, CreatedResponse(Len(extractedFields[r]), savedTransactions[r], errors[r]))
    /\ UNCHANGED << storeVars, postVars, adminVars, ledgerVars, file, extractedFields, idx, category,
                    savedTransactions, errors >>

\* After the loop: 201 with the saved rows, or the throw that the outer catch
\* answers.
Respond(r) ==
    /\ pc[r] = "loop"
    /\ idx[r] > Len(extractedFields[r])
    /\ IF Len(savedTransactions[r]) > 0
       THEN Finish(r, CreatedResponse(Len(extractedFields[r]), savedTransactions[r], errors[r]))
       ELSE Finish(r, OuterCatch(ThrownError(
                <<"Failed to save any transactions. ", Len(errors[r]), " errors occurred.">>)))
    /\ UNCHANGED << storeVars, postVars, adminVars, ledgerVars, file, extractedFields, idx, category,
                    savedTransactions, errors >>

\* ------------------------------------------------- POST /api/categories
PostCategory ==
    /\ categoryPosts < MaxCategoryPosts
    /\ categoryPosts' = categoryPosts + 1
    /\ \E name \in PostNames, icon \in PostIcons :
         IF ~Truthy(name)
         THEN /\ categoryStatus' = 400
              /\ UNCHANGED << categories, nextCategoryId >>
         ELSE \/ /\ \A c \in categories : c.name # name.s
                 /\ categories' = categories \cup
                        {[id |-> nextCategoryId, name |-> name.s, iconName |-> icon]}
                 /\ nextCategoryId' = nextCategoryId + 1
                 /\ categoryStatus' = 201
              \/ /\ \E c \in categories : c.name = name.s
                 /\ categoryStatus' = 409
                 /\ UNCHANGED << categories, nextCategoryId >>
              \/ /\ categoryStatus' = 500
                 /\ UNCHANGED << categories, nextCategoryId >>
    /\ UNCHANGED << transactions, nextTransactionId, pc, extractedFields, idx, category,
                    savedTransactions, errors, response, file, adminVars,
                    ledgerVars >>

\* The analysis step of an upload over the smaller set of arrays.
AnalyzeFew(r) == AnalyzeFrom(r, FewArrays)

\* The analysis step of an upload over the arrays of one label.
AnalyzeSameLabel(r) == AnalyzeFrom(r, SameLabelArrays)

\* --------------------------------------------------- PUT /api/categories/:id
\* Faulty variant: the name column without its unique index.
PutCategory_NoUniqueCheck ==
    /\ categoryPuts < MaxCategoryPuts
    /\ categoryPuts' = categoryPuts + 1
    /\ \E id \in 1..nextCategoryId, name \in PutNames, icon \in PutIcons :
         IF name.t = "undefined" /\ icon.t = "undefined"
         THEN /\ categoryStatus' = 400
              /\ UNCHANGED categories
         ELSE \/ /\ \A c \in categories : c.id # id
                 /\ categoryStatus' = 404
                 /\ UNCHANGED categories
              \/ \E c \in categories :
                    /\ c.id = id
                    /\ LET updated ==
                             [id |-> c.id,
                              name |-> IF name.t = "undefined" THEN c.name ELSE name.s,
                              iconName |-> IF icon.t = "undefined" THEN c.iconName ELSE icon]
                       IN /\ categories' = (categories \ {c}) \cup {updated}
                          /\ categoryStatus' = 200
              \/ /\ categoryStatus' = 500
                 /\ UNCHANGED categories
    /\ UNCHANGED << nextCategoryId, transactions, nextTransactionId, categoryPosts,
                    transactionDeletes, deleteResponse, pc, extractedFields, idx, category,
                    savedTransactions, errors, response, file, ledgerVars >>

\* prisma.category.update for the id of the path; the unique index on name
\* refuses a name another Category holds.
PutCategory ==
    /\ categoryPuts < MaxCategoryPuts
    /\ categoryPuts' = categoryPuts + 1
    /\ \E id \in 1..nextCategoryId, name \in PutNames, icon \in PutIcons :
         IF name.t = "undefined" /\ icon.t = "undefined"
         THEN /\ categoryStatus' = 400
              /\ UNCHANGED categories
         ELSE \/ /\ \A c \in categories : c.id # id
                 /\ categoryStatus' = 404
                 /\ UNCHANGED categories
              \/ \E c \in categories :
                    /\ c.id = id
                    /\ LET updated ==
                             [id |-> c.id,
                              name |-> IF name.t = "undefined" THEN c.name ELSE name.s,
                              iconName |-> IF icon.t = "undefined" THEN c.iconName ELSE icon]
                       IN IF \E d \in categories \ {c} : d.name = updated.name
                          THEN /\ categoryStatus' = 409
                               /\ UNCHANGED categories
                          ELSE /\ categories' = (categories \ {c}) \cup {updated}
                               /\ categoryStatus' = 200
              \/ /\ categoryStatus' = 500
                 /\ UNCHANGED categories
    /\ UNCHANGED << nextCategoryId, transactions, nextTransactionId, categoryPosts,
                    transactionDeletes, deleteResponse, pc, extractedFields, idx, category,
                    savedTransactions, errors, response, file, ledgerVars >>

\* ----------------------------------------- DELETE /api/transactions/<segment>
\* No DELETE request answered yet.
NoDelete == [segment |-> IdSegment(0), status |-> 0, success |-> FALSE, message |-> <<>>]

\* res.status(code).json(...) of the DELETE routes for the request's segment.
DeleteResponse(seg, code, success, msg) ==
    [segment |-> seg, status |-> code, success |-> success, message |-> msg]

\* The text of req.params.id.
SegmentText(seg) == IF seg.word # "" THEN seg.word ELSE ToText(JNum(seg.id))

\* The route patterns of the two DELETE routes: '/:id' takes any single
\* segment, '/clear' the word clear.
MatchesIdRoute(seg) == TRUE
MatchesClearRoute(seg) == seg.word = "clear"

\* router.delete('/:id'): prisma.transaction.delete for the segment as id.
DeleteById(seg) ==
    \/ \E t \in transactions :
         /\ seg.word = "" /\ t.id = seg.id
         /\ transactions' = transactions \ {t}
         /\ deleteResponse' = DeleteResponse(seg, 204, FALSE, <<>>)
    \/ /\ ~\E t \in transactions : seg.word = "" /\ t.id = seg.id
       /\ deleteResponse' =
             DeleteResponse(seg, 404, FALSE,
                            <<"Transaction with ID ", SegmentText(seg), " not found">>)
       /\ UNCHANGED transactions
    \/ /\ deleteResponse' = DeleteResponse(seg, 500, FALSE, <<"Failed to delete transaction">>)
       /\ UNCHANGED transactions

\* router.delete('/clear'): prisma.transaction.deleteMany({}).
ClearAll(seg) ==
    \/ /\ transactions' = {}
       /\ deleteResponse' =
             DeleteResponse(seg, 200, TRUE, <<"All transactions have been deleted">>)
    \/ /\ deleteResponse' =
             DeleteResponse(seg, 500, FALSE, <<"Server error while clearing transactions">>)
       /\ UNCHANGED transactions

\* A DELETE /api/transactions/<segment> request: the router runs the first
\* route, in the order of registration ('/:id', then '/clear'), whose pattern
\* matches the path.
DeleteTransaction ==
    /\ transactionDeletes < MaxTransactionDeletes
    /\ transactionDeletes' = transactionDeletes + 1
    /\ \E seg \in {ClearSegment} \cup { IdSegment(k) : k \in 1..nextTransactionId } :
         IF MatchesIdRoute(seg) THEN DeleteById(seg)
         ELSE IF MatchesClearRoute(seg) THEN ClearAll(seg)
         ELSE /\ deleteResponse' = DeleteResponse(seg, 404, FALSE, <<>>)
              /\ UNCHANGED transactions
    /\ UNCHANGED << categories, nextCategoryId, nextTransactionId, postVars, categoryPuts,
                    pc, extractedFields, idx, category, savedTransactions, errors, response,
                    file, ledgerVars >>

\* ---------------------------------------------------------- specification
\* ------------------------------------------------------- the other routes
\* A request to one of the other routes: the route, the id of the path, and the
\* fields of the body or query the route reads (JUndefined: left out).
ApiRequest(route, id, merchant, amount, date, categoryId, month, year) ==
    [route |-> route, id |-> id, merchant |-> merchant, amount |-> amount, date |-> date,
     categoryId |-> categoryId, month |-> month, year |-> year]

NoRequest ==
    ApiRequest("", 0, JUndefined, JUndefined, JUndefined, JUndefined, JUndefined, JUndefined)

\* What such a route answers with: the status and, by route, the updated
\* Transaction, the summary entries or the Budget (rows as sets of at most one).
ApiResponse(req, code, rows, entries, saved) ==
    [request |-> req, status |-> code, transactions |-> rows, summary |-> entries,
     budgets |-> saved]

\* res.status(code).json({message}).
ApiMessage(req, code) == ApiResponse(req, code, {}, <<>>, {})

NoApiResponse == ApiMessage(NoRequest, 0)

\* A request of these routes has passed its category check and waits for its
\* store write.
Pending(route) == apiResponse.status = 0 /\ apiResponse.request.route = route

\* No request of these routes is between its two store calls.
NonePending == apiResponse.status # 0 \/ apiResponse.request = NoRequest

\* The id a categoryId value of a body names, NoId for null or a missing one.
IdOf(v) == IF v.t = "number" THEN v.n ELSE NoId

\* parseFloat of a body value: a number as it is, anything else drawn here NaN.
ParseFloat(v) == IF v.t = "number" THEN v ELSE JUndefined

\* ------------------------------------------------ PUT /api/transactions/:id
\* The bodies sent to the route: updateTransactionCategory sends categoryId
\* alone, updateTransaction the whole Transaction.
CategoryOnly == [merchant |-> JUndefined, amount |-> JUndefined, date |-> JUndefined]
FullEdit == [merchant |-> JStr("Cafe Luna"), amount |-> JNum(-1300), date |-> JStr("2024-01-01")]
PutBodies == { CategoryOnly, FullEdit }

PutTransactionRoute == "PUT /api/transactions/:id"

\* The handler up to its first store write: the validation of the body and the
\* category check (findUnique), which it awaits before the update.
PutTransactionCheck ==
    /\ apiCalls < MaxApiCalls
    /\ NonePending
    /\ apiCalls' = apiCalls + 1
    /\ \E id \in 1..nextTransactionId, body \in PutBodies,
          cat \in {JNull} \cup { JNum(k) : k \in 1..nextCategoryId } :
         LET req == ApiRequest(PutTransactionRoute, id, body.merchant, body.amount,
                               body.date, cat, JUndefined, JUndefined)
         IN IF ~Truthy(body.merchant) \/ body.amount.t = "undefined" \/ ~Truthy(body.date)
            THEN apiResponse' = ApiMessage(req, 400)
            ELSE IF ~IsNumberType(ParseFloat(body.amount))
            THEN apiResponse' = ApiMessage(req, 400)
            ELSE IF ~NewDate(body.date).valid
            THEN apiResponse' = ApiMessage(req, 400)
            ELSE \/ /\ Truthy(cat) /\ \A c \in categories : c.id # IdOf(cat)
                    /\ apiResponse' = ApiMessage(req, 404)
                 \/ /\ Truthy(cat) => \E c \in categories : c.id = IdOf(cat)
                    /\ apiResponse' = ApiMessage(req, 0)
                 \/ apiResponse' = ApiMessage(req, 500)
    /\ UNCHANGED << storeVars, postVars, adminVars, budgets, nextBudgetId, utcOffset, rawText, pc,
                    extractedFields, idx, category, savedTransactions, errors, response, file >>

\* prisma.transaction.update and the response: the updated row, 404 when no
\* Transaction has the id, 500 when the store refuses the write (the foreign key
\* of categoryId included).
PutTransactionUpdate ==
    /\ Pending(PutTransactionRoute)
    /\ LET req == apiResponse.request
           data == [merchant |-> req.merchant,
                    amount |-> ParseFloat(req.amount),
                    date |-> NewDate(req.date),
                    categoryId |-> IdOf(req.categoryId)]
       IN \/ \E t \in transactions :
               /\ t.id = req.id
               /\ CreateAccepts(data)
               /\ LET row == [id |-> t.id] @@ data IN
                    /\ transactions' = (transactions \ {t}) \cup {row}
                    /\ apiResponse' = ApiResponse(req, 200, {row}, <<>>, {})
          \/ /\ \A t \in transactions : t.id # req.id
             /\ apiResponse' = ApiMessage(req, 404)
             /\ UNCHANGED transactions
          \/ /\ apiResponse' = ApiMessage(req, 500)
             /\ UNCHANGED transactions
    /\ UNCHANGED << categories, nextCategoryId, nextTransactionId, postVars, adminVars,
                    budgets, nextBudgetId, apiCalls, utcOffset, rawText, pc, extractedFields, idx,
                    category, savedTransactions, errors, response, file >>

\* --------------------------------------------- GET /api/transactions/summary
\* Offsets of the time zones the server process may run in (hours ahead of UTC).
ZoneOffsets == { -5, 0, 1 }

\* The query strings sent: getTransactionSummary sends the numbers of a month
\* and a year; a parameter may also be absent or no number.
SummaryMonths == { JUndefined, JStr("1"), JStr("3"), JStr("13"), JStr("March") }
SummaryYears == { JUndefined, JStr("2024") }

\* parseInt(v, 10) of the values drawn here: a finite number as it is, a string
\* by its digits; JUndefined stands for NaN.
ParseInt(v) ==
    CASE v.t = "number" /\ v.s # "Infinity" -> v
      [] v.s = "1" -> JNum(1)
      [] v.s = "3" -> JNum(3)
      [] v.s = "13" -> JNum(13)
      [] v.s = "2024" -> JNum(2024)
      [] OTHER -> JUndefined

\* The instant of UTC midnight of a day, in hours on a clock that keeps the
\* order of the calendar (32 days to a month).
Midnight(dt) == ((dt.y * 12 + dt.m) * 32 + dt.d) * 24

\* new Date(year, monthIndex, day) is midnight of that day in the local time of
\* the process; day 0 is the last day of the month before.
LocalMidnight(year, monthIndex, day) ==
    IF day = 0 THEN Midnight(DateOf(year, monthIndex, DaysInMonth(year, monthIndex))) - utcOffset
    ELSE Midnight(DateOf(year, monthIndex + 1, day)) - utcOffset

\* The rows of the month's findMany: dated from startDate to endDate, with a
\* category.
MonthTransactions(monthNum, yearNum) ==
    LET startDate == LocalMidnight(yearNum, monthNum - 1, 1)
        endDate == LocalMidnight(yearNum, monthNum, 0)
    IN { t \in transactions : /\ Midnight(t.date) >= startDate
                              /\ Midnight(t.date) <= endDate
                              /\ t.categoryId # NoId }

\* The entry the handler maps one row to.
SummaryEntry(item) ==
    LET found == { c \in categories : c.id = item.categoryId } IN
    [categoryId |-> item.categoryId,
     categoryName |-> IF found = {} THEN JUndefined ELSE JStr((CHOOSE c \in found : TRUE).name),
     categoryIcon |-> IF found = {} \/ (CHOOSE c \in found : TRUE).iconName = JNull
                      THEN JUndefined ELSE (CHOOSE c \in found : TRUE).iconName,
     totalSpent |-> item.amount.n]

SummaryRoute == "GET /api/transactions/summary"

\* The handler. Its two reads are taken together: no step that runs between
\* them changes a Category. Rows of one date come in any order.
GetSummary ==
    /\ apiCalls < MaxApiCalls
    /\ NonePending
    /\ apiCalls' = apiCalls + 1
    /\ \E month \in SummaryMonths, year \in SummaryYears :
         LET req == ApiRequest(SummaryRoute, 0, JUndefined, JUndefined, JUndefined,
                               JUndefined, month, year)
             monthNum == ParseInt(month)
             yearNum == ParseInt(year)
         IN IF ~Truthy(month) \/ ~Truthy(year)
            THEN apiResponse' = ApiMessage(req, 400)
            ELSE IF ~IsNumberType(monthNum) \/ monthNum.n < 1 \/ monthNum.n > 12
                    \/ ~IsNumberType(yearNum)
            THEN apiResponse' = ApiMessage(req, 400)
            ELSE \/ LET rows == MonthTransactions(monthNum.n, yearNum.n) IN
                    \E order \in [1..Cardinality(rows) -> rows] :
                       /\ \A i, j \in DOMAIN order : i < j =>
                             /\ order[i] # order[j]
                             /\ Midnight(order[i].date) >= Midnight(order[j].date)
                       /\ apiResponse' = ApiResponse(req, 200, {},
                              [i \in DOMAIN order |-> SummaryEntry(order[i])], {})
                 \/ apiResponse' = ApiMessage(req, 500)
    /\ UNCHANGED << storeVars, postVars, adminVars, budgets, nextBudgetId, utcOffset, rawText, pc,
                    extractedFields, idx, category, savedTransactions, errors, response, file >>

\* --------------------------------------------------------- POST /api/budgets
\* The bodies upsertBudget sends: categoryId, amount, month and year.
BudgetAmounts == { JNum(10000), JNum(25000) }
BudgetMonths == { JNum(3), JNum(13) }
BudgetYears == { JNum(2024) }

PostBudgetRoute == "POST /api/budgets"

\* @@unique([categoryId, month, year]): a Budget of the same key is stored.
BudgetExists(data) ==
    \E b \in budgets : /\ b.categoryId = data.categoryId
                        /\ b.month = data.month
                        /\ b.year = data.year

\* The foreign key of Budget.categoryId.
BudgetAccepts(data) == \E c \in categories : c.id = data.categoryId

\* The handler up to its store write: the validation of the body and the
\* category check (findUnique), which it awaits before the create.
PostBudgetCheck ==
    /\ apiCalls < MaxApiCalls
    /\ NonePending
    /\ apiCalls' = apiCalls + 1
    /\ \E cat \in {JUndefined} \cup { JNum(k) : k \in 1..nextCategoryId },
          amount \in BudgetAmounts,
          month \in BudgetMonths, year \in BudgetYears :
         LET req == ApiRequest(PostBudgetRoute, 0, JUndefined, amount, JUndefined, cat, month, year)
         IN IF ~Truthy(cat) \/ amount.t = "undefined" \/ ~Truthy(month) \/ ~Truthy(year)
            THEN apiResponse' = ApiMessage(req, 400)
            ELSE IF \/ ~IsNumberType(ParseFloat(amount))
                    \/ ~IsNumberType(ParseInt(month))
                    \/ ~IsNumberType(ParseInt(year))
                    \/ ParseInt(month).n < 1
                    \/ ParseInt(month).n > 12
            THEN apiResponse' = ApiMessage(req, 400)
            ELSE \/ /\ \A c \in categories : c.id # IdOf(cat)
                    /\ apiResponse' = ApiMessage(req, 404)
                 \/ /\ \E c \in categories : c.id = IdOf(cat)
                    /\ apiResponse' = ApiMessage(req, 0)
                 \/ apiResponse' = ApiMessage(req, 500)
    /\ UNCHANGED << storeVars, postVars, adminVars, budgets, nextBudgetId, utcOffset, rawText, pc,
                    extractedFields, idx, category, savedTransactions, errors, response, file >>

\* prisma.budget.create and the response: 201 with the new Budget; for a key
\* that is stored, P2002, answered 409 when the error's target is the name of
\* the index and 500 when it is the list of its fields; 500 for every other
\* refusal of the store (the foreign key of categoryId included).
PostBudgetCreate ==
    /\ Pending(PostBudgetRoute)
    /\ LET req == apiResponse.request
           data == [categoryId |-> IdOf(req.categoryId),
                    amount |-> ParseFloat(req.amount).n,
                    month |-> ParseInt(req.month).n,
                    year |-> ParseInt(req.year).n]
       IN \/ /\ BudgetAccepts(data)
             /\ ~BudgetExists(data)
             /\ LET row == [id |-> nextBudgetId] @@ data IN
                  /\ budgets' = budgets \cup {row}
                  /\ nextBudgetId' = nextBudgetId + 1
                  /\ apiResponse' = ApiResponse(req, 201, {}, <<>>, {row})
          \/ /\ BudgetAccepts(data)
             /\ BudgetExists(data)
             /\ apiResponse' \in { ApiMessage(req, 409), ApiMessage(req, 500) }
             /\ UNCHANGED << budgets, nextBudgetId >>
          \/ /\ apiResponse' = ApiMessage(req, 500)
             /\ UNCHANGED << budgets, nextBudgetId >>
    /\ UNCHANGED << storeVars, postVars, adminVars, apiCalls, utcOffset, rawText, pc, extractedFields,
                    idx, category, savedTransactions, errors, response, file >>

\* ------------------------------------------------- DELETE /api/categories/:id
\* prisma.category.delete and the response: 204; 404 when no Category has the
\* id (P2025); 500 when the store refuses. The foreign keys decide the rest: a
\* Budget of the Category restricts the delete, the Transactions of the
\* Category are set to no category.
DeleteCategory ==
    /\ apiCalls < MaxApiCalls
    /\ apiCalls' = apiCalls + 1
    /\ \E id \in 1..nextCategoryId :
         \/ \E c \in categories :
              /\ c.id = id
              /\ \A b \in budgets : b.categoryId # id
              /\ categories' = categories \ {c}
              /\ transactions' = { IF t.categoryId = id THEN [t EXCEPT !.categoryId = NoId] ELSE t :
                                    t \in transactions }
              /\ categoryStatus' = 204
         \/ /\ \A c \in categories : c.id # id
            /\ categoryStatus' = 404
            /\ UNCHANGED << categories, transactions >>
         \/ /\ categoryStatus' = 500
            /\ UNCHANGED << categories, transactions >>
    /\ UNCHANGED << nextCategoryId, nextTransactionId, categoryPosts, adminVars, budgets,
                    nextBudgetId, apiResponse, utcOffset, rawText, pc, extractedFields, idx, category,
                    savedTransactions, errors, response, file >>

\* The state when the server starts, in a time zone of offsets, on a store
\* holding the Categories cats
\* (ids 1..n) and no Transaction.
InitIn(cats, offsets) ==
    /\ utcOffset \in offsets
    /\ categories = cats
    /\ transactions = {}
    /\ nextCategoryId = Cardinality(cats) + 1
    /\ nextTransactionId = 1
    /\ categoryPosts = 0
    /\ categoryStatus = 0
    /\ pc = [r \in Req |-> "idle"]
    /\ extractedFields = [r \in Req |-> <<>>]
    /\ idx = [r \in Req |-> 1]
    /\ category = [r \in Req |-> NoId]
    /\ savedTransactions = [r \in Req |-> <<>>]
    /\ errors = [r \in Req |-> <<>>]
    /\ response = [r \in Req |-> NoResponse]
    /\ file = [r \in Req |-> NoFile]
    /\ categoryPuts = 0
    /\ transactionDeletes = 0
    /\ deleteResponse = NoDelete
    /\ budgets = {}
    /\ nextBudgetId = 1
    /\ apiCalls = 0
    /\ apiResponse = NoApiResponse
    /\ rawText = [r \in Req |-> NoText]

\* The server started in UTC.
InitWith(cats) == InitIn(cats, {0})

\* The server starts on an empty store.
Init == InitWith({})

\* A store that holds one Category from an earlier run of the server.
SeededCategories == { [id |-> 1, name |-> "Income", iconName |-> JNull] }

\* A store that holds the Category the uploads of one label resolve to.
DiningCategory == { [id |-> 1, name |-> "Dining", iconName |-> JStr("restaurant")] }

\* One upload and the category create route.
Next ==
    \/ \E r \in Solo : Start(r)
    \/ \E r \in Solo : Analyze(r)
    \/ \E r \in Solo : Validate(r)
    \/ \E r \in Solo : Lookup(r)
    \/ \E r \in Solo : Create(r)
    \/ \E r \in Solo : Respond(r)
    \/ PostCategory

Spec == Init /\ [][Next]_vars

\* Two uploads over the smaller set of arrays, interleaved at their awaits with
\* each other and with the category create route.
NextPair ==
    \/ \E r \in Req : Start(r)
    \/ \E r \in Req : AnalyzeFew(r)
    \/ \E r \in Req : Validate(r)
    \/ \E r \in Req : Lookup(r)
    \/ \E r \in Req : Create(r)
    \/ \E r \in Req : Respond(r)
    \/ PostCategory

SpecPair == Init /\ [][NextPair]_vars

\* One upload over the arrays of one label, interleaved at its awaits with the
\* category create and update routes and the transaction DELETE routes.
NextAdmin ==
    \/ \E r \in Solo : Start(r)
    \/ \E r \in Solo : AnalyzeSameLabel(r)
    \/ \E r \in Solo : Validate(r)
    \/ \E r \in Solo : Lookup(r)
    \/ \E r \in Solo : Create(r)
    \/ \E r \in Solo : Respond(r)
    \/ PostCategory
    \/ PutCategory
    \/ DeleteTransaction

SpecAdmin == InitWith(SeededCategories) /\ [][NextAdmin]_vars

\* One upload over the arrays of one label on a store that holds its Category,
\* interleaved at its awaits with the transaction update route.
NextLedger ==
    \/ \E r \in Solo : Start(r)
    \/ \E r \in Solo : AnalyzeSameLabel(r)
    \/ \E r \in Solo : Validate(r)
    \/ \E r \in Solo : Lookup(r)
    \/ \E r \in Solo : Create(r)
    \/ \E r \in Solo : Respond(r)
    \/ PutTransactionCheck
    \/ PutTransactionUpdate
    \/ GetSummary

SpecLedger == InitIn(DiningCategory, ZoneOffsets) /\ [][NextLedger]_vars

\* One upload over the arrays of one label on a store that holds its Category,
\* interleaved at its awaits with the routes that write or delete what refers
\* to a Category.
NextIntegrity ==
    \/ \E r \in Solo : Start(r)
    \/ \E r \in Solo : AnalyzeSameLabel(r)
    \/ \E r \in Solo : Validate(r)
    \/ \E r \in Solo : Lookup(r)
    \/ \E r \in Solo : Create(r)
    \/ \E r \in Solo : Respond(r)
    \/ PutTransactionCheck
    \/ PutTransactionUpdate
    \/ PostBudgetCheck
    \/ PostBudgetCreate
    \/ DeleteCategory

SpecIntegrity == InitWith(DiningCategory) /\ [][NextIntegrity]_vars

\* One upload followed from the text of the inference call's response.
NextText ==
    \/ \E r \in Solo : Start(r)
    \/ \E r \in Solo : AnalyzeText(r)
    \/ \E r \in Solo : Validate(r)
    \/ \E r \in Solo : Lookup(r)
    \/ \E r \in Solo : Create(r)
    \/ \E r \in Solo : Respond(r)

SpecText == Init /\ [][NextText]_vars

\* The steps of the handler of an upload after the request has arrived: each is
\* the continuation of an await, which runs once the awaited call has resolved
\* or rejected.
Handler(r) ==
    \/ AnalyzeFew(r)
    \/ Validate(r)
    \/ Lookup(r)
    \/ Create(r)
    \/ Respond(r)

\* One upload and the category create route, every awaited call of the upload
\* coming back: the event loop runs a continuation that stays ready.
NextLive ==
    \/ \E r \in Solo : Start(r)
    \/ \E r \in Solo : Handler(r)
    \/ PostCategory

SpecLive == Init /\ [][NextLive]_vars /\ \A r \in Solo : WF_vars(Handler(r))

\* ================================================================== claims
Range(q) == { q[i] : i \in 1..Len(q) }

\* The request went through the per-candidate loop and was answered.
LoopDone(r) == pc[r] = "done" /\ Len(extractedFields[r]) > 0

\* A store operation of the request was rejected for a reason of the store
\* itself (not of the data handed to it).
StoreFailed(r) ==
    \E i \in 1..Len(errors[r]) :
        Len(errors[r][i].message) = 4 /\ errors[r][i].message[4] = "store unavailable"

\* The date text names a day that exists in the calendar.
DenotesCalendarDate(v) ==
    LET f == IsoFields(v.s) IN
    /\ v.t = "string"
    /\ Len(f) = 3
    /\ f[2] \in 1..12
    /\ f[3] >= 1 /\ f[3] <= DaysInMonth(f[1], f[2])

\* C1: every Transaction in the store has a non-empty merchant string, a finite
\* numeric amount and a date that is a day of the calendar.
C1_PersistedWellFormed ==
    \A t \in transactions :
        /\ t.merchant.t = "string" /\ t.merchant.s # ""
        /\ t.amount.t = "number" /\ t.amount.s # "Infinity"
        /\ IsCalendarDate(t.date)

\* C1 witness: an upload was answered 201 and left a Transaction in the store.
C1_Witness ==
    \E r \in Req :
        /\ response[r].status = 201
        /\ \E t \in transactions : t \in Range(savedTransactions[r])

\* A candidate that lacks merchant, amount or date, or is the null element.
Lacks(cand) ==
    cand.isNull \/ cand.merchant.t = "null" \/ cand.amount.t = "null" \/ cand.date.t = "null"

\* C3: the step that handles a candidate lacking merchant, amount or date (or a
\* null element) creates no Transaction, appends exactly one failure descriptor
\* carrying that candidate, and moves on to the next element; and no request that
\* entered the loop is answered before every element has been handled.
C3_MissingFieldSkipped ==
    /\ [][\A r \in Req :
            (pc[r] = "loop" /\ idx[r] <= Len(extractedFields[r]) /\ Lacks(Current(r))
             /\ (pc'[r] # pc[r] \/ idx'[r] # idx[r] \/ errors'[r] # errors[r]))
            => /\ transactions' = transactions
               /\ savedTransactions'[r] = savedTransactions[r]
               /\ Len(errors'[r]) = Len(errors[r]) + 1
               /\ SubSeq(errors'[r], 1, Len(errors[r])) = errors[r]
               /\ errors'[r][Len(errors'[r])].hasData
               /\ errors'[r][Len(errors'[r])].data = Current(r)
               /\ idx'[r] = idx[r] + 1
               /\ pc'[r] = "loop"]_vars
    /\ [](\A r \in Req : LoopDone(r) => idx[r] = Len(extractedFields[r]) + 1)

\* C3 witness: a request whose first element lacked a field went on and persisted
\* the second.
C3_Witness ==
    \E r \in Req :
        /\ LoopDone(r)
        /\ Len(extractedFields[r]) = 2
        /\ Lacks(extractedFields[r][1])
        /\ Len(errors[r]) = 1 /\ errors[r][1].data = extractedFields[r][1]
        /\ Len(savedTransactions[r]) = 1

\* A candidate the data model accepts: non-empty merchant string, finite numeric
\* amount (zero included), a date text naming a day of the calendar.
WellFormed(cand) ==
    /\ ~cand.isNull
    /\ cand.merchant.t = "string" /\ cand.merchant.s # ""
    /\ cand.amount.t = "number" /\ cand.amount.s # "Infinity"
    /\ DenotesCalendarDate(cand.date)

\* C2: when every element of the array is well-formed (zero amounts included)
\* and no store operation fails, the answered request has persisted exactly one
\* Transaction per element, in order, with the element's merchant, amount and date.
C2_OnePerValidCandidate ==
    \A r \in Req :
        (LoopDone(r) /\ ~StoreFailed(r) /\ \A i \in 1..Len(extractedFields[r]) :
                                              WellFormed(extractedFields[r][i]))
        => /\ Len(savedTransactions[r]) = Len(extractedFields[r])
           /\ \A i \in 1..Len(extractedFields[r]) :
                /\ i <= Len(savedTransactions[r])
                /\ savedTransactions[r][i].merchant = extractedFields[r][i].merchant
                /\ savedTransactions[r][i].amount = extractedFields[r][i].amount
                /\ savedTransactions[r][i].date = NewDate(extractedFields[r][i].date)
                /\ savedTransactions[r][i] \in transactions

\* A candidate whose amount is present but not a number.
NonNumericAmount(cand) ==
    ~cand.isNull /\ cand.amount.t = "string" /\ cand.amount.s # ""

\* The elements of q with a present, non-numeric amount, in order.
RECURSIVE BadAmounts(_)
BadAmounts(q) ==
    IF q = <<>> THEN <<>>
    ELSE IF NonNumericAmount(Head(q)) THEN <<Head(q)>> \o BadAmounts(Tail(q))
    ELSE BadAmounts(Tail(q))

\* C4: for an array of n elements of which k >= 1 have a present, non-numeric
\* amount and the other n-k are well-formed, and no store operation fails, the answered
\* request has persisted n-k Transactions and holds k failure descriptors, the
\* i-th carrying the data of the i-th bad element.
C4_NonNumericAmountSkipped ==
    \A r \in Req :
        LET arr == extractedFields[r]
            bad == BadAmounts(arr)
        IN (LoopDone(r) /\ ~StoreFailed(r) /\ Len(bad) >= 1
            /\ \A i \in 1..Len(arr) : NonNumericAmount(arr[i]) \/ WellFormed(arr[i]))
           => /\ Len(savedTransactions[r]) = Len(arr) - Len(bad)
              /\ Len(errors[r]) = Len(bad)
              /\ \A i \in 1..Len(errors[r]) :
                    errors[r][i].hasData /\ errors[r][i].data = bad[i]

\* C5: a request never holds more persisted Transactions than it has handled
\* elements whose date text names a day of the calendar: an element with any
\* other date is never persisted.
C5_InvalidDateNeverPersisted ==
    \A r \in Req :
        Len(savedTransactions[r]) <=
            Cardinality({ i \in 1..Len(extractedFields[r]) :
                            i < idx[r] /\ DenotesCalendarDate(extractedFields[r][i].date) })

\* C6: a store step of the loop (category lookup or create) ends in exactly one
\* of: the row is persisted and listed; one failure descriptor is appended and
\* nothing is persisted; the lookup resolved and the create is next.  In each case
\* the loop goes on with the next element, no step removes a row a request has
\* saved, and no request that entered the loop is answered before its last element.
C6_StoreErrorIsolated ==
    /\ [][\A r \in Req :
            (pc[r] \in {"lookup", "create"} /\ pc'[r] # pc[r])
            => \/ /\ Len(savedTransactions'[r]) = Len(savedTransactions[r]) + 1
                  /\ errors'[r] = errors[r]
                  /\ idx'[r] = idx[r] + 1 /\ pc'[r] = "loop"
               \/ /\ Len(errors'[r]) = Len(errors[r]) + 1
                  /\ SubSeq(errors'[r], 1, Len(errors[r])) = errors[r]
                  /\ savedTransactions'[r] = savedTransactions[r]
                  /\ transactions' = transactions
                  /\ idx'[r] = idx[r] + 1 /\ pc'[r] = "loop"
               \/ /\ pc[r] = "lookup" /\ pc'[r] = "create"
                  /\ errors'[r] = errors[r] /\ idx'[r] = idx[r]
                  /\ savedTransactions'[r] = savedTransactions[r]
                  /\ transactions' = transactions]_vars
    /\ [][\A r \in Req :
            /\ Len(savedTransactions'[r]) >= Len(savedTransactions[r])
            /\ SubSeq(savedTransactions'[r], 1, Len(savedTransactions[r])) = savedTransactions[r]
            /\ Range(savedTransactions'[r]) \subseteq transactions']_vars
    /\ [](\A r \in Req : LoopDone(r) => idx[r] = Len(extractedFields[r]) + 1)

\* C6 witness: the first element was persisted, the store failed on the second,
\* and the answered request still holds the first row, in the store too.
C6_Witness ==
    \E r \in Req :
        /\ LoopDone(r)
        /\ extractedFields[r] = <<CafeLuna, Payroll>>
        /\ Len(savedTransactions[r]) = 1
        /\ savedTransactions[r][1].merchant = CafeLuna.merchant
        /\ savedTransactions[r][1] \in transactions
        /\ Len(errors[r]) = 1
        /\ errors[r][1].message = <<"Failed to save transaction ", "Payroll", ": ", "store unavailable">>
        /\ response[r].status = 201

\* C7: every failure descriptor carries the candidate's data and a reason.
C7_DescriptorHasDataAndReason ==
    \A r \in Req : \A i \in 1..Len(errors[r]) :
        errors[r][i].hasData /\ Len(errors[r][i].message) > 0

\* C8: a request that went through the loop is answered 201 exactly when it
\* persisted at least one Transaction, and with an error status otherwise; a
\* request answered with an error status has saved no row, and every row of the
\* store is one that some request lists as saved.
C8_CreatedIffPersisted ==
    /\ \A r \in Req :
          LoopDone(r) => /\ (response[r].status = 201 <=> Len(savedTransactions[r]) > 0)
                         /\ (Len(savedTransactions[r]) = 0 => response[r].status >= 400)
    /\ \A r \in Req : response[r].status >= 400 => savedTransactions[r] = <<>>
    /\ transactions = UNION { Range(savedTransactions[r]) : r \in Req }

\* C8 witness: a batch whose every element failed, answered with an error while
\* failure descriptors exist.
C8_Witness ==
    \E r \in Req :
        /\ LoopDone(r)
        /\ Len(errors[r]) = Len(extractedFields[r])
        /\ savedTransactions[r] = <<>>
        /\ response[r].status = 500
        /\ transactions = {}

\* C9: the response of a batch whose every element failed carries the failure
\* descriptors.
C9_FatalCarriesDescriptors ==
    \A r \in Req :
        (LoopDone(r) /\ Len(savedTransactions[r]) = 0)
        => response[r].hasErrors /\ response[r].errors = errors[r]

\* C10: when every element of the array was persisted, each element with a
\* category label has a Category of exactly that name in the store and its
\* Transaction references that Category.
C10_LabelResolvedOrCreated ==
    \A r \in Req :
        (LoopDone(r) /\ Len(savedTransactions[r]) = Len(extractedFields[r]))
        => \A i \in 1..Len(extractedFields[r]) :
              Truthy(extractedFields[r][i].category)
              => \E c \in categories :
                    /\ c.name = extractedFields[r][i].category.s
                    /\ savedTransactions[r][i].categoryId = c.id

\* C15: an upload whose file part declares a content type that does not begin
\* with 'image/', or whose size is not under the limit, has been answered with a
\* 4xx status as soon as it has arrived, with no analysis result and no row saved.
C15_RejectedUploadClientError ==
    \A r \in Req :
        (pc[r] # "idle" /\ file[r].present
         /\ (~FileFilterAccepts(file[r]) \/ file[r].size >= FileSizeLimit))
        => /\ pc[r] = "done"
           /\ response[r].status \in 400..499
           /\ extractedFields[r] = <<>>
           /\ savedTransactions[r] = <<>>

\* C14: the analysis step of an upload never touches the store, and it either
\* hands a non-empty array to the loop or (inference failure, undecodable or
\* non-array text, empty array) ends the request with an error response; no
\* store operation is ever pending for a request without a non-empty array, and
\* such a request, once answered, has an error status and has saved nothing.
C14_AnalysisFailureLeavesStore ==
    /\ [][\A r \in Req :
            (pc[r] = "analyze" /\ pc'[r] # "analyze")
            => /\ transactions' = transactions /\ categories' = categories
               /\ savedTransactions'[r] = <<>>
               /\ \/ /\ pc'[r] = "loop" /\ Len(extractedFields'[r]) > 0
                     /\ response'[r] = NoResponse
                  \/ /\ pc'[r] = "done" /\ extractedFields'[r] = <<>>
                     /\ response'[r].status >= 400]_vars
    /\ [](\A r \in Req :
            /\ pc[r] \in {"lookup", "create"} => Len(extractedFields[r]) > 0
            /\ (pc[r] = "done" /\ extractedFields[r] = <<>>)
               => response[r].status >= 400 /\ savedTransactions[r] = <<>>)

\* C14 witness: an accepted image whose analysis failed or came back empty,
\* answered 500 by the handler's catch with the store still empty.
C14_Witness ==
    \E r \in Req :
        /\ pc[r] = "done"
        /\ file[r].present /\ FileFilterAccepts(file[r])
        /\ extractedFields[r] = <<>>
        /\ response[r] = MessageResponse(500, <<"Server error processing receipt">>)
        /\ transactions = {} /\ categories = {}

\* C17: a 201 response carries an errors list exactly when the request recorded
\* at least one failure descriptor, which is exactly when fewer rows were saved
\* than candidates found; the list it carries is the request's list, and a
\* response for a batch persisted in full has none.
C17_ErrorsListIffFailure ==
    \A r \in Req :
        response[r].status = 201
        => /\ response[r].hasErrors <=> Len(errors[r]) > 0
           /\ response[r].hasErrors
                <=> Len(savedTransactions[r]) < Len(extractedFields[r])
           /\ response[r].hasErrors => response[r].errors = errors[r]
           /\ ~response[r].hasErrors => response[r].errors = <<>>

\* C17 witness: a 201 response of a two-candidate batch with one row saved and an
\* errors list of one descriptor.
C17_Witness ==
    \E r \in Req :
        /\ response[r].status = 201
        /\ Len(extractedFields[r]) = 2
        /\ Len(response[r].transactions) = 1
        /\ response[r].hasErrors /\ Len(response[r].errors) = 1

\* The k-th smallest member of a finite set of positions.
Nth(P, k) == CHOOSE p \in P : Cardinality({ q \in P : q < p }) = k - 1

\* The row was made from the candidate.
RowOf(row, cand) ==
    /\ row.merchant = cand.merchant
    /\ row.amount = cand.amount
    /\ row.date = NewDate(cand.date)

\* The failure descriptor was recorded for the candidate.
DescriptorOf(e, cand) ==
    IF e.hasData THEN e.data = cand
    ELSE Len(e.message) = 4 /\ e.message[2] = ToText(cand.merchant)

\* The elements handled so far split into the positions P, whose rows make up
\* savedTransactions, and the others, whose descriptors make up errors, each
\* list holding its entries in increasing position.
Split(r, P) ==
    LET arr == extractedFields[r]
        rest == (1..(idx[r] - 1)) \ P
    IN /\ Len(savedTransactions[r]) = Cardinality(P)
       /\ \A k \in 1..Cardinality(P) : RowOf(savedTransactions[r][k], arr[Nth(P, k)])
       /\ Len(errors[r]) = Cardinality(rest)
       /\ \A k \in 1..Cardinality(rest) : DescriptorOf(errors[r][k], arr[Nth(rest, k)])

\* C18: at every moment the elements handled so far split into the positions P
\* whose rows make up savedTransactions and the others whose descriptors make up
\* errors, each list holding its entries in increasing position; and a 201
\* response carries the two lists as they are.
C18_ListsKeepCandidateOrder ==
    \A r \in Req :
        /\ \E P \in SUBSET (1..(idx[r] - 1)) : Split(r, P)
        /\ response[r].status = 201
             => /\ response[r].transactions = savedTransactions[r]
                /\ response[r].hasErrors => response[r].errors = errors[r]

\* C18 witness: a 201 response whose transactions list holds the rows of two
\* different candidates in the order of the array.
C18_Witness ==
    \E r \in Req :
        /\ response[r].status = 201
        /\ extractedFields[r] = <<CafeLuna, Payroll>>
        /\ Len(response[r].transactions) = 2
        /\ response[r].transactions[1].merchant = CafeLuna.merchant
        /\ response[r].transactions[2].merchant = Payroll.merchant

\* C16 as stated: the summary of a 201 response reads 'Processed <found>
\* potential transactions. Saved <saved>.', found the length of the extracted
\* array and saved the length of the persisted list.
C16_SummaryAsWorded ==
    \A r \in Req :
        response[r].status = 201
        => response[r].message =
              <<"Processed ", Len(extractedFields[r]), " potential transactions. Saved ",
                Len(savedTransactions[r]), ".">>

\* C16 amended: the summary of a 201 response reads 'Processed <found> potential
\* transactions, successfully saved <saved>', found the length of the extracted
\* array and saved the length of the persisted list, which is the list the
\* response carries.
C16_SummaryCounts ==
    \A r \in Req :
        response[r].status = 201
        => /\ response[r].message =
                <<"Processed ", Len(extractedFields[r]),
                  " potential transactions, successfully saved ", Len(savedTransactions[r])>>
           /\ Len(response[r].transactions) = Len(savedTransactions[r])

\* C16 witness: two candidates found and both saved.
C16_Witness ==
    \E r \in Req :
        /\ Len(extractedFields[r]) = 2 /\ Len(savedTransactions[r]) = 2
        /\ response[r].message =
              <<"Processed ", 2, " potential transactions, successfully saved ", 2>>

\* C13: no lookup is ever pending for a candidate without a category label, and
\* in an answered request whose store operations all succeeded every
\* well-formed candidate (zero amounts included) without a label is among the
\* positions whose rows were saved, its row is in the store with no category, and
\* so no failure descriptor stands for it.
C13_UnlabelledSavedUncategorized ==
    \A r \in Req :
        /\ pc[r] = "lookup" => Truthy(Current(r).category)
        /\ (LoopDone(r) /\ ~StoreFailed(r))
           => \E P \in SUBSET (1..Len(extractedFields[r])) :
                 /\ Split(r, P)
                 /\ \A i \in 1..Len(extractedFields[r]) :
                       (WellFormed(extractedFields[r][i])
                        /\ ~Truthy(extractedFields[r][i].category))
                       => /\ i \in P
                          /\ \E k \in 1..Cardinality(P) :
                                /\ Nth(P, k) = i
                                /\ savedTransactions[r][k].categoryId = NoId
                                /\ savedTransactions[r][k] \in transactions

\* C20: the step that answers a DELETE /api/transactions/clear request leaves the
\* Transaction table empty and answers 200 with success: true.
C20_ClearEmptiesTransactions ==
    [][(transactionDeletes' # transactionDeletes /\ deleteResponse'.segment = ClearSegment)
       => /\ transactions' = {}
          /\ deleteResponse'.status = 200
          /\ deleteResponse'.success]_vars

\* The request was answered with every element of its array persisted, so the
\* i-th saved row is the row of the i-th element.
AllPersisted(r) == LoopDone(r) /\ Len(savedTransactions[r]) = Len(extractedFields[r])

AllLabelled(r) ==
    \A i \in 1..Len(extractedFields[r]) :
        WellFormed(extractedFields[r][i]) /\ Truthy(extractedFields[r][i].category)

\* C12: when two uploads whose candidates are all well-formed and labelled have
\* both been answered, in whatever order their store operations interleaved,
\* with no store failure and no category request besides them, then for every
\* label the two arrays share exactly one Category of that name exists, both
\* requests persisted every candidate, the Transactions of that label reference
\* that Category, and neither request holds a failure descriptor.
C12_ConcurrentSameLabelOneCategory ==
    \A r, q \in Req :
        (/\ r # q /\ categoryPosts = 0
         /\ LoopDone(r) /\ LoopDone(q)
         /\ ~StoreFailed(r) /\ ~StoreFailed(q)
         /\ AllLabelled(r) /\ AllLabelled(q))
        => \A i \in 1..Len(extractedFields[r]), j \in 1..Len(extractedFields[q]) :
              extractedFields[r][i].category = extractedFields[q][j].category
              => /\ AllPersisted(r) /\ AllPersisted(q)
                 /\ errors[r] = <<>> /\ errors[q] = <<>>
                 /\ Cardinality({ c \in categories :
                                    c.name = extractedFields[r][i].category.s }) = 1
                 /\ \E c \in categories :
                       /\ c.name = extractedFields[r][i].category.s
                       /\ savedTransactions[r][i].categoryId = c.id
                       /\ savedTransactions[q][j].categoryId = c.id

\* C19: when two uploads that received the same array of n well-formed
\* candidates (zero amounts included) have both been answered and no store
\* operation failed, each has persisted n Transactions, the store holds 2n
\* Transactions, and no Transaction of one upload has the identity of a
\* Transaction of the other.
C19_ReplayDoublesTransactions ==
    \A r, q \in Req :
        (/\ r # q
         /\ LoopDone(r) /\ LoopDone(q)
         /\ ~StoreFailed(r) /\ ~StoreFailed(q)
         /\ extractedFields[r] = extractedFields[q]
         /\ \A i \in 1..Len(extractedFields[r]) : WellFormed(extractedFields[r][i]))
        => /\ Len(savedTransactions[r]) = Len(extractedFields[r])
           /\ Len(savedTransactions[q]) = Len(extractedFields[q])
           /\ Cardinality(transactions) = 2 * Len(extractedFields[r])
           /\ \A i \in 1..Len(savedTransactions[r]), j \in 1..Len(savedTransactions[q]) :
                 savedTransactions[r][i].id # savedTransactions[q][j].id

\* C21: a request of updateTransactionCategory, whose body holds categoryId
\* alone (null or the id of an existing Category), for an existing Transaction
\* is answered, unless the store fails, 200 with that Transaction carrying the
\* new category and its merchant, amount and date as stored.
C21_CategoryOnlyUpdateSetsCategory ==
    [][ ( /\ apiResponse'.request.route = PutTransactionRoute
          /\ apiResponse' # apiResponse
          /\ apiResponse'.status \notin {0, 500}
          /\ apiResponse'.request.merchant = JUndefined
          /\ apiResponse'.request.amount = JUndefined
          /\ apiResponse'.request.date = JUndefined
          /\ \E t \in transactions : t.id = apiResponse'.request.id
          /\ \/ apiResponse'.request.categoryId = JNull
             \/ \E c \in categories : c.id = IdOf(apiResponse'.request.categoryId) )
        => \E t \in transactions :
              /\ t.id = apiResponse'.request.id
              /\ apiResponse'.status = 200
              /\ apiResponse'.transactions = {[t EXCEPT !.categoryId = IdOf(apiResponse'.request.categoryId)]}
              /\ transactions' = (transactions \ {t}) \cup apiResponse'.transactions ]_vars

\* The sum of the amounts of a set of Transactions.
RECURSIVE TotalOf(_)
TotalOf(rows) ==
    IF rows = {} THEN 0
    ELSE LET t == CHOOSE x \in rows : TRUE IN t.amount.n + TotalOf(rows \ {t})

\* The categorized Transactions dated in a month of the calendar.
SpentIn(monthNum, yearNum) ==
    { t \in transactions : t.categoryId # NoId /\ t.date.y = yearNum /\ t.date.m = monthNum }

\* C22: the 200 answer to a summary request for a valid month and year holds at
\* most one entry per categoryId, one for every Category with a Transaction
\* dated in that month (first to last day), and the entry's totalSpent is the
\* sum of the amounts of the categorized Transactions of that Category and month.
C22_SummaryGroupsByCategory ==
    [][ ( /\ apiResponse' # apiResponse
          /\ apiResponse'.request.route = SummaryRoute
          /\ apiResponse'.status = 200 )
        => LET entries == apiResponse'.summary
               spent == SpentIn(ParseInt(apiResponse'.request.month).n,
                                ParseInt(apiResponse'.request.year).n)
           IN /\ \A i, j \in DOMAIN entries :
                    entries[i].categoryId = entries[j].categoryId => i = j
              /\ \A t \in spent : \E i \in DOMAIN entries : entries[i].categoryId = t.categoryId
              /\ \A i \in DOMAIN entries :
                    entries[i].totalSpent =
                       TotalOf({ t \in spent : t.categoryId = entries[i].categoryId }) ]_vars

\* C23: the answer to a POST /api/budgets whose category exists and for whose
\* (categoryId, month, year) a Budget is stored is, unless the store fails, a
\* success after which that Budget holds the posted amount; and no two Budgets
\* share (categoryId, month, year).
C23_UpsertUpdatesStoredBudget ==
    [][ /\ ( /\ Pending(PostBudgetRoute)
             /\ apiResponse'.status \notin {0, 500}
             /\ \E b \in budgets :
                   /\ b.categoryId = IdOf(apiResponse.request.categoryId)
                   /\ b.month = ParseInt(apiResponse.request.month).n
                   /\ b.year = ParseInt(apiResponse.request.year).n )
           => /\ apiResponse'.status \in 200..299
              /\ \E b \in budgets' :
                   /\ b.categoryId = IdOf(apiResponse.request.categoryId)
                   /\ b.month = ParseInt(apiResponse.request.month).n
                   /\ b.year = ParseInt(apiResponse.request.year).n
                   /\ b.amount = ParseFloat(apiResponse.request.amount).n
        /\ \A b1, b2 \in budgets' :
              (b1.categoryId = b2.categoryId /\ b1.month = b2.month /\ b1.year = b2.year)
                 => b1 = b2 ]_vars

\* Every Transaction's categoryId is null or the id of a Category, and every
\* Budget's categoryId is the id of a Category.
ReferencesResolve ==
    /\ \A t \in transactions : t.categoryId = NoId \/ \E c \in categories : c.id = t.categoryId
    /\ \A b \in budgets : \E c \in categories : c.id = b.categoryId

\* C29: under every interleaving of an upload, transaction updates, budget
\* creations and category deletions every reference to a Category resolves
\* after each step, and the create of a candidate whose Category was deleted
\* after its lookup persists nothing and records one failure descriptor.
C29_ReferentialIntegrity ==
    [][ /\ ReferencesResolve'
        /\ \A r \in Req :
              ( /\ pc[r] = "create"
                /\ pc'[r] # "create"
                /\ category[r] # NoId
                /\ \A c \in categories : c.id # category[r] )
              => /\ transactions' = transactions
                 /\ Len(errors'[r]) = Len(errors[r]) + 1
                 /\ errors'[r][Len(errors'[r])].message[2] = ToText(Current(r).merchant) ]_vars

\* Reached: the Category found by the lookup of a well-formed candidate was
\* deleted before the create, the store refused the row and the candidate is
\* the request's one failure descriptor.
C29_Witness ==
    \E r \in Req :
        /\ pc[r] = "done"
        /\ extractedFields[r] = <<CafeLuna>>
        /\ category[r] # NoId
        /\ \A c \in categories : c.id # category[r]
        /\ Len(errors[r]) = 1
        /\ errors[r][1].message[2] = "Cafe Luna"
        /\ ~StoreFailed(r)
        /\ transactions = {}
        /\ categoryStatus = 204

\* A candidate that ends as a validation failure: a required field is missing,
\* the amount is no number or the date is no date.
FailsValidation(cand) ==
    \/ MissingRequired(cand)
    \/ ~IsNumberType(cand.amount)
    \/ ~NewDate(cand.date).valid

C25_UploadKeepsCategories ==
    [][ (\E r \in Req : pc'[r] # pc[r] \/ idx'[r] # idx[r])
        => \A c \in categories : c \in categories' ]_vars

\* Reached: an upload that resolved its label to the Category stored before the
\* request was answered 201, and that Category is as it was.
C25_Witness ==
    \E r \in Req :
        /\ pc[r] = "done"
        /\ response[r].status = 201
        /\ \E i \in 1..Len(savedTransactions[r]) : savedTransactions[r][i].categoryId = 1
        /\ DiningCategory \subseteq categories

\* C28: the Transactions a request has persisted and the failure descriptors it
\* has recorded number together the candidates its loop has left behind; when
\* the loop is through they number the candidates of the array, and the 201
\* body lists as many Transactions and descriptors as it says were processed.
C28_EveryCandidateCountedOnce ==
    \A r \in Req :
        /\ Len(savedTransactions[r]) + Len(errors[r]) = idx[r] - 1
        /\ LoopDone(r) => Len(savedTransactions[r]) + Len(errors[r]) = Len(extractedFields[r])
        /\ response[r].status = 201
             => /\ Len(response[r].transactions) + Len(response[r].errors) = response[r].message[2]
                /\ response[r].message[2] = Len(extractedFields[r])

\* Reached: a request answered 201 for an array of two candidates, one
\* persisted and one recorded as a failure.
C28_Witness ==
    \E r \in Req :
        /\ response[r].status = 201
        /\ Len(extractedFields[r]) = 2
        /\ Len(savedTransactions[r]) = 1
        /\ Len(errors[r]) = 1

\* C26: a request works on one candidate at a time, and when the loop of a
\* request is through whose array holds two well-formed candidates (amounts not
\* zero) of one label that no Category had, no store operation having failed
\* and no Category having been posted, exactly one Category has that name and
\* both candidates' Transactions refer to it.
C26_SameLabelInBatchOneCategory ==
    \A r \in Req :
        /\ pc[r] \in {"lookup", "create"} => idx[r] \in 1..Len(extractedFields[r])
        /\ ( /\ LoopDone(r)
             /\ Len(extractedFields[r]) = 2
             /\ \A i \in 1..2 : /\ WellFormed(extractedFields[r][i])
                                /\ Truthy(extractedFields[r][i].amount)
                                /\ extractedFields[r][i].category.t = "string"
             /\ extractedFields[r][1].category = extractedFields[r][2].category
             /\ ~StoreFailed(r)
             /\ categoryPosts = 0 )
           => /\ Len(savedTransactions[r]) = 2
              /\ Cardinality({ c \in categories :
                                 c.name = extractedFields[r][1].category.s }) = 1
              /\ \E c \in categories :
                    /\ c.name = extractedFields[r][1].category.s
                    /\ savedTransactions[r][1].categoryId = c.id
                    /\ savedTransactions[r][2].categoryId = c.id

\* The fences the claim speaks of: an opening fence with or without the tag
\* json, a closing fence, or none on that side.
FenceOpenings == { <<>>, <<Fence, "json", Ws>>, <<Fence, Ws>> }
FenceClosings == { <<>>, <<Ws, Fence>> }

\* C27: when the response text is a text T that decodes to a JSON array, bare
\* or with a fence before it (tagged json or not), after it or both, the upload
\* goes on with the array T decodes to (and is answered as for an empty
\* extraction when that array is empty).
C27_FenceStrippingTransparent ==
    \A r \in Req :
        ( /\ rawText[r] # NoText
          /\ rawText[r].opening \in FenceOpenings
          /\ rawText[r].closing \in FenceClosings
          /\ ParseResponse(rawText[r].body).ok )
        => IF Len(ParseResponse(rawText[r].body).value) > 0
           THEN extractedFields[r] = ParseResponse(rawText[r].body).value
           ELSE /\ extractedFields[r] = <<>>
                /\ response[r] = OuterCatch(ThrownError(
                      <<"Could not extract any transaction data from the uploaded receipt">>))

\* C30: an upload request that has arrived is eventually answered, whichever
\* way it goes (no file, a refused file, a failed or empty extraction, no
\* candidate persisted, some or all persisted); a response is sent only by the
\* step that ends the handler, and once sent it is never followed by another.
C30_ExactlyOneResponse ==
    /\ \A r \in Solo : (pc[r] # "idle") ~> (pc[r] = "done" /\ response[r].status # 0)
    /\ [][ \A r \in Solo :
             /\ response'[r] # response[r] => (response[r].status = 0 /\ pc'[r] = "done")
             /\ pc[r] = "done" => pc'[r] = "done" ]_vars

\* Reached: an upload answered 201 with one candidate persisted and one
\* recorded as a failure, its handler at its end.
C30_Witness ==
    \E r \in Solo :
        /\ pc[r] = "done"
        /\ response[r].status = 201
        /\ response[r].hasErrors
        /\ Len(response[r].transactions) = 1

====
